---- MODULE Spec2Model ----
(***************************************************************************)
(* Model of the Cryptopia node.js client (src/src/index.js): the client    *)
(* object, privateRequest / publicRequest, the endpoint methods that       *)
(* delegate to them, executeRequest and mapErrorMessage.                   *)
(*                                                                         *)
(* JavaScript values are records [t, s, n, props]: t is the typeof-like    *)
(* tag, s the string content, n the numeric content and props the own      *)
(* properties in insertion order, each [k, v] with v a leaf [t, s, n].     *)
(* Text that the code only concatenates is a TLA+ string; text that the    *)
(* code transforms character by character (key, hostname, method, secret)  *)
(* is a sequence of one-character strings.                                 *)
(***************************************************************************)
EXTENDS Integers, Sequences, FiniteSets, TLC

VARIABLES client, call, now, authLog, sgn

vars == <<client, call, now, authLog, sgn>>

(***************************************************************************)
(* Bounds of the model.                                                    *)
(***************************************************************************)
MaxLog == 2
MaxClock == 1000

(***************************************************************************)
(* JavaScript values.                                                      *)
(***************************************************************************)
Leaf(t, s, n) == [t |-> t, s |-> s, n |-> n]
Val(t, s, n, props) == [t |-> t, s |-> s, n |-> n, props |-> props]
Prop(k, v) == [k |-> k, v |-> v]

UndefinedLeaf == Leaf("undefined", "", 0)
NullLeaf == Leaf("null", "", 0)
StrLeaf(s) == Leaf("string", s, 0)
NumLeaf(n) == Leaf("number", "", n)
ObjLeaf(json) == Leaf("object", json, 0)

Lift(l) == Val(l.t, l.s, l.n, <<>>)
Undefined == Lift(UndefinedLeaf)
Null == Lift(NullLeaf)
Str(s) == Lift(StrLeaf(s))
Num(n) == Lift(NumLeaf(n))
Obj(props) == Val("object", "", 0, props)
Arr == Val("array", "[]", 0, <<>>)
Fun == Val("function", "", 0, <<>>)

\* JavaScript truthiness of a leaf or a value
Truthy(v) ==
  CASE v.t = "undefined" -> FALSE
    [] v.t = "null" -> FALSE
    [] v.t = "string" -> v.s # ""
    [] v.t = "number" -> v.n # 0
    [] v.t = "boolean" -> v.n # 0
    [] OTHER -> TRUE

\* a mutation of isObject: typeof null is 'object' and the !!obj test is left out
isObjectNoNullTest(v) == v.t \in {"function", "object", "array", "null"}

\* underscore's _.isObject: type === 'function' || type === 'object' && !!obj
isObject(v) == v.t \in {"function", "object", "array"}

\* underscore's _.has: obj != null && hasOwnProperty.call(obj, key)
has(v, key) == \E j \in 1..Len(v.props) : v.props[j].k = key

\* property read obj.key; undefined when the property is absent
Get(v, key) ==
  IF has(v, key)
  THEN (CHOOSE p \in {v.props[j] : j \in 1..Len(v.props)} : p.k = key).v
  ELSE UndefinedLeaf

(***************************************************************************)
(* The static error-code table and its lookup.                             *)
(***************************************************************************)
ERROR_CODES ==
  (10000 :> "Required parameter can not be null") @@
  (10001 :> "Requests are too frequent") @@
  (10002 :> "System Error") @@
  (10003 :> "Restricted list request, please try again later") @@
  (10004 :> "IP restriction") @@
  (10005 :> "Key does not exist") @@
  (10006 :> "User does not exist") @@
  (10007 :> "Signatures do not match") @@
  (10008 :> "Illegal parameter") @@
  (10009 :> "Order does not exist") @@
  (10010 :> "Insufficient balance") @@
  (10011 :> "Order is less than minimum trade amount") @@
  (10012 :> "Unsupported symbol (not btc_usd or ltc_usd)") @@
  (10013 :> "This interface only accepts https requests") @@
  (10014 :> "Order price must be between 0 and 1,000,000") @@
  (10015 :> "Order price differs from current market price too much") @@
  (10016 :> "Insufficient coins balance") @@
  (10017 :> "API authorization error") @@
  (10026 :> "Loan (including reserved loan) and margin cannot be withdrawn") @@
  (10027 :> "Cannot withdraw within 24 hrs of authentication information modification") @@
  (10028 :> "Withdrawal amount exceeds daily limit") @@
  (10029 :> "Account has unpaid loan, please cancel/pay off the loan before withdraw") @@
  (10031 :> "Deposits can only be withdrawn after 6 confirmations") @@
  (10032 :> "Please enabled phone/google authenticator") @@
  (10033 :> "Fee higher than maximum network transaction fee") @@
  (10034 :> "Fee lower than minimum network transaction fee") @@
  (10035 :> "Insufficient BTC/LTC") @@
  (10036 :> "Withdrawal amount too low") @@
  (10037 :> "Trade password not set") @@
  (10040 :> "Withdrawal cancellation fails") @@
  (10041 :> "Withdrawal address not approved") @@
  (10042 :> "Admin password error") @@
  (10100 :> "User account frozen") @@
  (10216 :> "Non-available API") @@
  (503 :> "Too many requests (Http)")

\* a mutation of mapErrorMessage: the table is never consulted
mapErrorMessageNoTable(error_code) ==
  "Unknown Cryptopia error code: " \o ToString(error_code)

mapErrorMessage(error_code) ==
  IF error_code \notin DOMAIN ERROR_CODES
  THEN "Unknown Cryptopia error code: " \o ToString(error_code)
  ELSE ERROR_CODES[error_code]

(***************************************************************************)
(* Text handled character by character.                                    *)
(***************************************************************************)
UpperToLower ==
  ("A" :> "a") @@ ("B" :> "b") @@ ("C" :> "c") @@ ("D" :> "d") @@
  ("E" :> "e") @@ ("F" :> "f") @@ ("G" :> "g") @@ ("H" :> "h") @@
  ("I" :> "i") @@ ("J" :> "j") @@ ("K" :> "k") @@ ("L" :> "l") @@
  ("M" :> "m") @@ ("N" :> "n") @@ ("O" :> "o") @@ ("P" :> "p") @@
  ("Q" :> "q") @@ ("R" :> "r") @@ ("S" :> "s") @@ ("T" :> "t") @@
  ("U" :> "u") @@ ("V" :> "v") @@ ("W" :> "w") @@ ("X" :> "x") @@
  ("Y" :> "y") @@ ("Z" :> "z")

\* String.prototype.toLowerCase, character by character
toLowerCase(cs) ==
  [j \in 1..Len(cs) |-> IF cs[j] \in DOMAIN UpperToLower THEN UpperToLower[cs[j]] ELSE cs[j]]

\* the characters of the model's alphabet that encodeURIComponent escapes
PercentCode ==
  (":" :> <<"%", "3", "A">>) @@ ("/" :> <<"%", "2", "F">>) @@
  ("=" :> <<"%", "3", "D">>) @@ ("+" :> <<"%", "2", "B">>)

RECURSIVE encodeURIComponent(_)
encodeURIComponent(cs) ==
  IF cs = <<>> THEN <<>>
  ELSE (IF Head(cs) \in DOMAIN PercentCode THEN PercentCode[Head(cs)] ELSE <<Head(cs)>>)
       \o encodeURIComponent(Tail(cs))

Digit == <<"0", "1", "2", "3", "4", "5", "6", "7", "8", "9">>

\* the decimal digits of a non-negative integer, as a template literal prints it
RECURSIVE Digits(_)
Digits(n) ==
  IF n < 10 THEN <<Digit[n + 1]>> ELSE Digits(n \div 10) \o <<Digit[(n % 10) + 1]>>

(***************************************************************************)
(* JSON.stringify of a parameter value.  A property whose value is         *)
(* undefined is left out; a function has no JSON text (the result is       *)
(* undefined).                                                             *)
(***************************************************************************)
LeafJson(l) ==
  CASE l.t = "string" -> "\"" \o l.s \o "\""
    [] l.t = "number" -> ToString(l.n)
    [] l.t = "null" -> "null"
    [] l.t = "boolean" -> (IF l.n # 0 THEN "true" ELSE "false")
    [] OTHER -> l.s

RECURSIVE PropsJson(_, _)
PropsJson(props, first) ==
  IF props = <<>> THEN ""
  ELSE IF Head(props).v.t = "undefined" THEN PropsJson(Tail(props), first)
  ELSE (IF first THEN "" ELSE ",") \o "\"" \o Head(props).k \o "\":"
       \o LeafJson(Head(props).v) \o PropsJson(Tail(props), FALSE)

HasJson(v) == v.t \notin {"undefined", "function"}

stringify(v) ==
  CASE v.t = "object" -> "{" \o PropsJson(v.props, TRUE) \o "}"
    [] v.t = "array" -> "[]"
    [] OTHER -> LeafJson(v)

(***************************************************************************)
(* Hashes.  MD5 and HMAC-SHA256 are taken as injective: the digest of a    *)
(* text is the text under a tag, the keyed hash is the pair of its key     *)
(* and its message.                                                        *)
(***************************************************************************)
md5Base64(text) == "md5:" \o text

hmacSha256Base64(keyBytes, msg) == [key |-> keyBytes, msg |-> msg]

\* the 6-bit values of the base64 characters of the model's alphabet
Base64Value ==
  ("A" :> 0) @@ ("B" :> 1) @@ ("C" :> 2) @@ ("D" :> 3) @@ ("E" :> 4) @@
  ("I" :> 8) @@ ("J" :> 9) @@ ("Q" :> 16) @@ ("R" :> 17) @@ ("U" :> 20) @@
  ("k" :> 36) @@ ("s" :> 44)

RECURSIVE Pow2(_)
Pow2(n) == IF n = 0 THEN 1 ELSE 2 * Pow2(n - 1)

\* the base64 characters of a text up to its first padding character;
\* characters outside the base64 alphabet are skipped
RECURSIVE Base64Chars(_)
Base64Chars(cs) ==
  IF cs = <<>> \/ Head(cs) = "=" THEN <<>>
  ELSE (IF Head(cs) \in DOMAIN Base64Value THEN <<Head(cs)>> ELSE <<>>)
       \o Base64Chars(Tail(cs))

RECURSIVE Base64Bits(_)
Base64Bits(cs) ==
  IF cs = <<>> THEN 0
  ELSE Base64Bits(SubSeq(cs, 1, Len(cs) - 1)) * 64 + Base64Value[cs[Len(cs)]]

\* new Buffer(secret, 'base64'): the bytes the text decodes to, as their
\* count and their big-endian value; trailing bits short of a byte are dropped
base64Decode(cs) ==
  LET b == Base64Chars(cs)
      nbits == 6 * Len(b)
  IN [len |-> nbits \div 8, bytes |-> Base64Bits(b) \div Pow2(nbits % 8)]

(***************************************************************************)
(* The client object.  A key, secret or hostname is a character sequence;  *)
(* the empty sequence stands for an argument that is omitted or empty,     *)
(* which JavaScript's ! and || treat alike.                                *)
(***************************************************************************)
DefaultHostname == <<"w", "w", "w", ".", "c", "r", "y", "p", "t", "o", "p", "i", "a", ".", "c", "o", ".", "n", "z">>

DefaultTimeout == 20000

HttpsPrefix == <<"h", "t", "t", "p", "s", ":", "/", "/">>

ApiPath == <<"a", "p", "i">>

Cryptopia(key, secret, hostname, timeout) ==
  LET host == IF hostname # <<>> THEN hostname ELSE DefaultHostname
  IN [key |-> key,
      secret |-> secret,
      hostname |-> host,
      server |-> HttpsPrefix \o host,
      publicApiPath |-> ApiPath,
      privateApiPath |-> ApiPath,
      timeout |-> IF Truthy(timeout) THEN timeout.n ELSE DefaultTimeout]

\* `${this.server}/${apiPath}/${method}`
Url(server, apiPath, method) == server \o <<"/">> \o apiPath \o <<"/">> \o method

(***************************************************************************)
(* Signing, as privateRequest does it.                                     *)
(***************************************************************************)
\* a mutation of signatureSource: the content digest is left out
signatureSourceNoDigest(key, url, nonce, md5) ==
  key \o <<"P", "O", "S", "T">> \o toLowerCase(encodeURIComponent(url)) \o Digits(nonce)

\* `${this.key}POST${encodeURIComponent(url).toLowerCase()}${nonce}${md5}`
signatureSource(key, url, nonce, md5) ==
  key \o <<"P", "O", "S", "T">> \o toLowerCase(encodeURIComponent(url)) \o Digits(nonce)
      \o <<md5>>

hmacSignature(key, secret, url, nonce, params) ==
  hmacSha256Base64(base64Decode(secret),
                   signatureSource(key, url, nonce, md5Base64(stringify(params))))

\* `amx ${this.key}:${hmacSignature}:${nonce}`
Authorization(key, signature, nonce) ==
  [scheme |-> "amx", key |-> key, signature |-> signature, nonce |-> nonce]

\* Math.floor(new Date().getTime() / 1000)
nonceAt(ms) == ms \div 1000

(***************************************************************************)
(* Promises, request descriptors, responses.                               *)
(***************************************************************************)
Pending == [state |-> "pending", kind |-> "", name |-> "", msg |-> "", value |-> Undefined]

Rejected(kind, name, msg) ==
  [state |-> "rejected", kind |-> kind, name |-> name, msg |-> msg, value |-> Undefined]

Fulfilled(v) == [state |-> "fulfilled", kind |-> "", name |-> "", msg |-> "", value |-> v]

NoOptions ==
  [url |-> <<>>, method |-> "", headers |-> <<>>, form |-> Undefined,
   json |-> Undefined, qs |-> Undefined, timeout |-> Undefined]

NoResponse == [err |-> "", status |-> 0, raw |-> ""]

Idle ==
  [pc |-> "idle", api |-> "", method |-> <<>>, params |-> Undefined,
   options |-> NoOptions, nonce |-> 0, transportCalls |-> 0, callbacks |-> 0,
   response |-> NoResponse, exec |-> Pending, result |-> Pending]

(***************************************************************************)
(* The transport: the bodies a server may send and what JSON.parse makes   *)
(* of each.                                                                *)
(***************************************************************************)
RawBodies ==
  {"<html>", "12", "{\"Success\":true}",
   "{\"error_code\":10007}", "{\"error_code\":99999}",
   "{\"Error\":null,\"Data\":{\"foo\":1}}",
   "{\"Error\":\"bad thing\",\"Data\":null}",
   "{\"Error\":\"\",\"Data\":{\"foo\":1}}"}

Parsed(v) == [ok |-> TRUE, value |-> v]

JsonParse(raw) ==
  CASE raw = "12" -> Parsed(Num(12))
    [] raw = "{\"Success\":true}" -> Parsed(Obj(<<Prop("Success", Leaf("boolean", "", 1))>>))
    [] raw = "{\"error_code\":10007}" -> Parsed(Obj(<<Prop("error_code", NumLeaf(10007))>>))
    [] raw = "{\"error_code\":99999}" -> Parsed(Obj(<<Prop("error_code", NumLeaf(99999))>>))
    [] raw = "{\"Error\":null,\"Data\":{\"foo\":1}}" ->
         Parsed(Obj(<<Prop("Error", NullLeaf), Prop("Data", ObjLeaf("{\"foo\":1}"))>>))
    [] raw = "{\"Error\":\"bad thing\",\"Data\":null}" ->
         Parsed(Obj(<<Prop("Error", StrLeaf("bad thing")), Prop("Data", NullLeaf)>>))
    [] raw = "{\"Error\":\"\",\"Data\":{\"foo\":1}}" ->
         Parsed(Obj(<<Prop("Error", StrLeaf("")), Prop("Data", ObjLeaf("{\"foo\":1}"))>>))
    [] OTHER -> [ok |-> FALSE, value |-> Undefined]

Statuses == {199, 200, 299, 300, 503}

Responses ==
  {[err |-> "ECONNRESET", status |-> 0, raw |-> ""]}
    \cup {[err |-> "", status |-> st, raw |-> b] : st \in Statuses, b \in RawBodies}

\* the data argument of the transport's callback: nothing on a transport
\* error; with the json option the body parsed when it parses, else the text
Delivered(options, resp) ==
  IF resp.err # "" THEN Undefined
  ELSE IF Truthy(options.json) /\ JsonParse(resp.raw).ok THEN JsonParse(resp.raw).value
  ELSE Str(resp.raw)

(***************************************************************************)
(* executeRequest: the callback's if / else-if chain, the error_code       *)
(* check after it, and the final reject or resolve.                        *)
(***************************************************************************)
NoError == [set |-> FALSE, kind |-> "", name |-> "", msg |-> ""]

Err(kind, name, msg) == [set |-> TRUE, kind |-> kind, name |-> name, msg |-> msg]

\* a mutation of statusIsError: status 300 passes
statusIsErrorOffByOne(status) == status < 200 \/ status > 300

\* response.statusCode < 200 || response.statusCode >= 300
statusIsError(status) == status < 200 \/ status >= 300

FirstError(options, resp, data) ==
  IF resp.err # ""
  THEN [error |-> Err("TransportError", resp.err, ""), returnObject |-> data]
  ELSE IF statusIsError(resp.status)
  THEN [error |-> Err("HttpStatusError", ToString(resp.status), ""), returnObject |-> data]
  ELSE IF Truthy(options.form)
  THEN IF JsonParse(data.s).ok
       THEN [error |-> NoError, returnObject |-> JsonParse(data.s).value]
       ELSE [error |-> Err("ResponseDecodeError", "VError", data.s), returnObject |-> data]
  ELSE IF Truthy(options.json) /\ ~isObject(data)
  THEN [error |-> Err("ResponseDecodeError", "VError", data.s), returnObject |-> data]
  ELSE [error |-> NoError, returnObject |-> data]

ErrorCodeCheck(first) ==
  IF has(first.returnObject, "error_code")
  THEN [error |-> Err("RemoteApiError",
                      ToString(Get(first.returnObject, "error_code").n),
                      mapErrorMessage(Get(first.returnObject, "error_code").n)),
        returnObject |-> first.returnObject]
  ELSE first

\* a mutation of Outcome: an error is surfaced only when there is no body
OutcomeSwallow(out) ==
  IF out.error.set /\ out.returnObject.t = "undefined"
  THEN Rejected(out.error.kind, out.error.name, out.error.msg)
  ELSE Fulfilled(out.returnObject)

\* if (error) reject(error) else resolve(returnObject)
Outcome(out) ==
  IF out.error.set
  THEN Rejected(out.error.kind, out.error.name, out.error.msg)
  ELSE Fulfilled(out.returnObject)

executeRequest(options, resp) ==
  Outcome(ErrorCodeCheck(FirstError(options, resp, Delivered(options, resp))))

\* a promise settles once: a later resolve or reject changes nothing
Settle(promise, outcome) == IF promise.state = "pending" THEN outcome ELSE promise

(***************************************************************************)
(* privateRequest and publicRequest up to the hand-over to the transport.  *)
(***************************************************************************)
\* a mutation of hasCredentials: only the key is looked at
hasCredentialsKeyOnly(c) == c.key # <<>>

\* the negation of !this.key || !this.secret
hasCredentials(c) == c.key # <<>> /\ c.secret # <<>>

\* a call that ends in Promise.reject before anything else is done
Early(api, method, params, promise) ==
  [Idle EXCEPT !.pc = "done", !.api = api, !.method = method, !.params = params,
               !.result = promise]

\* a mutation of Issue: the call is handed to the transport twice
IssueTwice(api, method, params, options, nonce) ==
  [Idle EXCEPT !.pc = "issued", !.api = api, !.method = method, !.params = params,
               !.options = options, !.nonce = nonce, !.transportCalls = 2]

\* executeRequest's new Promise: request(options, callback) is called once
Issue(api, method, params, options, nonce) ==
  [Idle EXCEPT !.pc = "issued", !.api = api, !.method = method, !.params = params,
               !.options = options, !.nonce = nonce, !.transportCalls = 1]

privateOptions(c, method, params, ms) ==
  LET url == Url(c.server, c.privateApiPath, method)
      nonce == nonceAt(ms)
      signature == hmacSignature(c.key, c.secret, url, nonce, params)
  IN [url |-> url,
      method |-> "POST",
      headers |-> <<[Authorization |-> Authorization(c.key, signature, nonce),
                     ContentType |-> "application/json; charset=utf-8",
                     ContentLength |-> Len(stringify(params)),
                     UserAgent |-> "nodejs-7.5-api-client"]>>,
      form |-> Str(stringify(params)),
      json |-> Undefined,
      qs |-> Undefined,
      timeout |-> Undefined]

\* the state of a private call when privateRequest returns (or throws: the
\* md5 update of a value without JSON text raises a TypeError)
privateCall(c, method, params, ms) ==
  IF ~hasCredentials(c)
  THEN Early("private", method, params, Rejected("MissingCredentialsError", "VError", ""))
  ELSE IF ~isObject(params)
  THEN Early("private", method, params, Rejected("InvalidParameterError", "VError", ""))
  ELSE IF ~HasJson(params)
  THEN [Idle EXCEPT !.pc = "threw", !.api = "private", !.method = method,
                    !.params = params]
  ELSE Issue("private", method, params, privateOptions(c, method, params, ms), nonceAt(ms))

publicOptions(c, method, params) ==
  [url |-> Url(c.server, c.publicApiPath, method),
   method |-> "GET",
   headers |-> <<>>,
   form |-> Undefined,
   json |-> Obj(<<>>),
   qs |-> params,
   timeout |-> Num(c.timeout)]

publicCall(c, method, params) ==
  IF ~isObject(params)
  THEN Early("public", method, params, Rejected("InvalidParameterError", "VError", ""))
  ELSE Issue("public", method, params, publicOptions(c, method, params), 0)

\* a mutation of publicThen: the whole envelope is returned
publicThenEnvelope(resp) ==
  IF Truthy(Get(resp, "Error"))
  THEN Rejected("Error", "Error", Get(resp, "Error").s)
  ELSE Fulfilled(resp)

\* publicRequest's .then handler: throw new Error(resp.Error) or return resp.Data
publicThen(resp) ==
  IF Truthy(Get(resp, "Error"))
  THEN Rejected("Error", "Error", Get(resp, "Error").s)
  ELSE Fulfilled(Lift(Get(resp, "Data")))

(***************************************************************************)
(* Inputs.                                                                 *)
(***************************************************************************)
KeyArgs == {<<>>, <<"k">>}

SecretArgs == {<<>>, <<"Q", "U", "I", "=">>}

HostnameArgs == {<<>>}

TimeoutArgs == {Undefined, Num(5000)}

ParamValues == {Obj(<<>>), Arr, Fun, Str("btc_usd"), Num(7), Null, Undefined}

M_GetBalance == <<"G", "e", "t", "B", "a", "l", "a", "n", "c", "e">>

M_trade == <<"t", "r", "a", "d", "e">>

M_GetCurrencies == <<"G", "e", "t", "C", "u", "r", "r", "e", "n", "c", "i", "e", "s", "/">>

M_GetMarketOrders == <<"G", "e", "t", "M", "a", "r", "k", "e", "t", "O", "r", "d", "e", "r", "s", "/">>

Pairs == {<<"D", "O", "T", "_", "B", "T", "C">>}

TickMs == 500

(***************************************************************************)
(* Actions.                                                                *)
(***************************************************************************)
\* a call is made: the client is read, never written
Start(next) ==
  /\ call.pc = "idle"
  /\ (next.pc = "issued" /\ next.api = "private") => Len(authLog) < MaxLog
  /\ call' = next
  /\ authLog' = IF next.pc = "issued" /\ next.api = "private"
                THEN Append(authLog, next.options.headers[1].Authorization.nonce)
                ELSE authLog
  /\ UNCHANGED <<client, now, sgn>>

privateRequest(method, params) == Start(privateCall(client, method, params, now))

publicRequest(method, params) == Start(publicCall(client, method, params))

getBalance == Start(privateCall(client, M_GetBalance, Obj(<<>>), now))

addTrade(symbol, type, amount, price) ==
  Start(privateCall(client, M_trade,
                    Obj(<<Prop("symbol", symbol), Prop("type", type)>>
                        \o (IF Truthy(amount) THEN <<Prop("amount", amount)>> ELSE <<>>)
                        \o (IF Truthy(price) THEN <<Prop("price", price)>> ELSE <<>>)),
                    now))

getCurrencies == Start(publicCall(client, M_GetCurrencies, Obj(<<>>)))

getOrderBook(pair, limit) ==
  LET lim == IF limit.t # "undefined" THEN limit ELSE NumLeaf(1000)
  IN Start(publicCall(client,
                      M_GetMarketOrders \o pair \o <<"/">> \o Digits(lim.n),
                      Obj(<<Prop("currencyPair", StrLeaf("DOT_BTC")), Prop("limit", lim)>>)))

\* the transport calls back with a response or a connection error
Respond(resp) ==
  /\ call.pc = "issued"
  /\ call' = [call EXCEPT
       !.response = resp,
       !.callbacks = @ + 1,
       !.exec = Settle(@, executeRequest(call.options, resp)),
       !.result = IF call.api = "private"
                  THEN Settle(@, executeRequest(call.options, resp))
                  ELSE @,
       !.pc = IF call.api = "private" THEN "done" ELSE "executed"]
  /\ UNCHANGED <<client, now, authLog, sgn>>

\* the transport gives up after options.timeout, when one is set
Timeout ==
  /\ Truthy(call.options.timeout)
  /\ Respond([err |-> "ETIMEDOUT", status |-> 0, raw |-> ""])

\* publicRequest's promise: the .then handler, or the executor's rejection
Then ==
  /\ call.pc = "executed"
  /\ call' = [call EXCEPT
       !.result = Settle(@, IF call.exec.state = "rejected"
                            THEN call.exec
                            ELSE publicThen(call.exec.value)),
       !.pc = "done"]
  /\ UNCHANGED <<client, now, authLog, sgn>>

\* the caller drops a finished call
Forget ==
  /\ call.pc \in {"done", "threw"}
  /\ call' = Idle
  /\ UNCHANGED <<client, now, authLog, sgn>>

Tick ==
  /\ now < MaxClock
  /\ now' = now + TickMs
  /\ UNCHANGED <<client, call, authLog, sgn>>

SgnIdle == [pc |-> "idle"]

Init ==
  /\ client \in {Cryptopia(k, s, h, t) :
                   k \in KeyArgs, s \in SecretArgs, h \in HostnameArgs, t \in TimeoutArgs}
  /\ call = Idle
  /\ now = 0
  /\ authLog = <<>>
  /\ sgn = SgnIdle

Next ==
  \/ \E m \in {M_GetBalance}, p \in ParamValues : privateRequest(m, p)
  \/ \E m \in {M_GetCurrencies}, p \in ParamValues : publicRequest(m, p)
  \/ getBalance
  \/ \E amount \in {UndefinedLeaf, NumLeaf(0), NumLeaf(2)} :
       addTrade(StrLeaf("btc_usd"), StrLeaf("buy"), amount, UndefinedLeaf)
  \/ getCurrencies
  \/ \E pair \in Pairs, limit \in {UndefinedLeaf, NumLeaf(0)} : getOrderBook(pair, limit)
  \/ \E resp \in Responses : Respond(resp)
  \/ Timeout
  \/ Then
  \/ Forget
  \/ Tick

Spec == Init /\ [][Next]_vars

(***************************************************************************)
(* The signature as a function of its inputs: two private calls, a and b,  *)
(* are signed at the same clock reading, each through its own client.      *)
(***************************************************************************)
SignKeys == {<<"k">>, <<"K">>}

SignSecrets == {<<"Q", "U", "I", "=">>, <<"Q", "U", "J", "=">>, <<"Q", "U", "s", "=">>}

SignMethods == {<<"G", "e", "t", "B", "a", "l", "a", "n", "c", "e">>, <<"g", "e", "t", "b", "a", "l", "a", "n", "c", "e">>, <<"t", "r", "a", "d", "e">>}

SignHostnames == {<<>>, <<"W", "W", "W", ".", "c", "r", "y", "p", "t", "o", "p", "i", "a", ".", "c", "o", ".", "n", "z">>}

SignParams ==
  {Obj(<<>>),
   Obj(<<Prop("symbol", StrLeaf("btc")), Prop("order_id", UndefinedLeaf)>>),
   Obj(<<Prop("symbol", StrLeaf("btc"))>>)}

SignClock == {0, 1000}

SignInputs ==
  [key : SignKeys, secret : SignSecrets, method : SignMethods,
   hostname : SignHostnames, params : SignParams]

\* the request descriptor privateRequest builds for one input
SignedOptions(in, ms) ==
  privateOptions(Cryptopia(in.key, in.secret, in.hostname, Undefined),
                 in.method, in.params, ms)

InitSign ==
  /\ client = Cryptopia(<<>>, <<>>, <<>>, Undefined)
  /\ call = Idle
  /\ now \in SignClock
  /\ authLog = <<>>
  /\ sgn \in {[pc |-> "input", a |-> a, b |-> b] : a \in SignInputs, b \in SignInputs}

SignBoth ==
  /\ sgn.pc = "input"
  /\ sgn' = [pc |-> "signed", a |-> sgn.a, b |-> sgn.b,
             optionsA |-> SignedOptions(sgn.a, now),
             optionsB |-> SignedOptions(sgn.b, now)]
  /\ UNCHANGED <<client, call, now, authLog>>

NextSign == SignBoth

SpecSign == InitSign /\ [][NextSign]_vars

(***************************************************************************)
(* Properties of one call (specification Spec).                            *)
(***************************************************************************)
Settled == call.pc = "done"

\* the response came with a status (no transport error) outside [200, 300)
BadStatus ==
  /\ call.callbacks > 0
  /\ call.response.err = ""
  /\ call.response.status < 200 \/ call.response.status > 299

GoodStatus ==
  /\ call.callbacks > 0
  /\ call.response.err = ""
  /\ call.response.status >= 200
  /\ call.response.status <= 299

\* the body of the response as JSON, when it is JSON
BodyParses == JsonParse(call.response.raw).ok

Body == JsonParse(call.response.raw).value

BodyHasErrorCode == BodyParses /\ \E j \in 1..Len(Body.props) : Body.props[j].k = "error_code"

BodyErrorCode == (CHOOSE p \in {Body.props[j] : j \in 1..Len(Body.props)} : p.k = "error_code").v.n

\* the code decoded the body: a public call's transport decodes every body that
\* is JSON; a private call parses the body only after a 2xx status
BodyDecoded ==
  /\ call.callbacks > 0
  /\ call.response.err = ""
  /\ BodyParses
  /\ call.api = "public" \/ GoodStatus

\* C1: a private call on a client whose key or secret is absent rejects with
\* the missing-credentials error, whatever params is, with no signing done and
\* the transport never invoked.
C1_MissingCredentials ==
  (call.pc # "idle" /\ call.api = "private" /\ (client.key = <<>> \/ client.secret = <<>>))
    => /\ call.pc = "done"
       /\ call.result.state = "rejected"
       /\ call.result.kind = "MissingCredentialsError"
       /\ call.transportCalls = 0
       /\ call.options.headers = <<>>
       /\ authLog = <<>>

C1_Witness ==
  /\ call.api = "private"
  /\ client.key # <<>>
  /\ client.secret = <<>>
  /\ call.params.t = "null"
  /\ call.result.kind = "MissingCredentialsError"

C3_Original ==
  (Settled /\ BadStatus)
    => /\ call.result.state = "rejected"
       /\ call.result.kind = "HttpStatusError"
       /\ call.result.name = ToString(call.response.status)

\* C3 as amended: a response whose status is outside [200, 300) makes the call
\* reject; the error is HttpStatusError carrying that status, except for a
\* public call whose decoded body has an error_code field, where it is
\* RemoteApiError carrying that error_code.
C3_StatusRejects ==
  (Settled /\ BadStatus)
    => /\ call.result.state = "rejected"
       /\ IF call.api = "public" /\ BodyHasErrorCode
          THEN /\ call.result.kind = "RemoteApiError"
               /\ call.result.name = ToString(BodyErrorCode)
          ELSE /\ call.result.kind = "HttpStatusError"
               /\ call.result.name = ToString(call.response.status)

C3_Witness ==
  /\ Settled
  /\ call.response.status = 503
  /\ call.response.raw = "{\"error_code\":10007}"
  /\ call.api = "private"
  /\ call.result.kind = "HttpStatusError"
  /\ call.result.name = "503"

\* C4: when the decoded body has an error_code field the call rejects with
\* RemoteApiError carrying that code; the message is the table's entry for the
\* code (10007: "Signatures do not match") or, without one, the unknown-code
\* message with the code in it; no call fulfils with a body that has error_code.
C4_RemoteApiError ==
  /\ (Settled /\ BodyDecoded /\ BodyHasErrorCode)
       => /\ call.result.state = "rejected"
          /\ call.result.kind = "RemoteApiError"
          /\ call.result.name = ToString(BodyErrorCode)
          /\ BodyErrorCode = 10007 => call.result.msg = "Signatures do not match"
          /\ BodyErrorCode \in DOMAIN ERROR_CODES
               => call.result.msg = ERROR_CODES[BodyErrorCode]
          /\ BodyErrorCode = 99999
               => call.result.msg = "Unknown Cryptopia error code: 99999"
  /\ \A promise \in {call.exec, call.result} :
       promise.state = "fulfilled"
         => ~\E j \in 1..Len(promise.value.props) : promise.value.props[j].k = "error_code"

C4_Witness ==
  /\ Settled
  /\ call.result.kind = "RemoteApiError"
  /\ call.result.name = "10007"
  /\ call.result.msg = "Signatures do not match"

\* the Error field of the body the executor resolved with
EnvelopeError == Get(call.exec.value, "Error")

EnvelopeData == Get(call.exec.value, "Data")

PublicDecoded == Settled /\ call.api = "public" /\ call.exec.state = "fulfilled"

\* C5 as stated: a public call whose executor result is a decoded body rejects
\* with the Error value as message when the body carries an Error (a field
\* that is there and not null), and otherwise fulfils with exactly Data.
C5_Original ==
  PublicDecoded
    => IF EnvelopeError.t \notin {"undefined", "null"}
       THEN call.result.state = "rejected" /\ call.result.msg = EnvelopeError.s
       ELSE call.result.state = "fulfilled" /\ call.result.value = Lift(EnvelopeData)

\* C5 as amended: the call rejects with the Error value as message when the
\* Error value is truthy (a non-empty string); when Error is absent, null or
\* the empty string the call fulfils with exactly Data.
C5_PublicEnvelope ==
  PublicDecoded
    => IF EnvelopeError.t = "string" /\ EnvelopeError.s # ""
       THEN /\ call.result.state = "rejected"
            /\ call.result.kind = "Error"
            /\ call.result.msg = EnvelopeError.s
       ELSE /\ call.result.state = "fulfilled"
            /\ call.result.value = Lift(EnvelopeData)

C5_Witness ==
  /\ PublicDecoded
  /\ call.response.raw = "{\"Error\":null,\"Data\":{\"foo\":1}}"
  /\ call.result.state = "fulfilled"
  /\ call.result.value = Lift(ObjLeaf("{\"foo\":1}"))

\* the response is one of the failure outcomes: a transport error, a status
\* outside [200, 300), a body that does not decode, an error_code
FailureOutcome ==
  /\ call.callbacks > 0
  /\ \/ call.response.err # ""
     \/ BadStatus
     \/ ~BodyParses
     \/ call.api = "public" /\ Body.t # "object"
     \/ BodyHasErrorCode

\* C6: one attempt per call: the transport is invoked at most once and calls
\* back at most once, every failure outcome ends in a rejection, and a
\* settled promise keeps its outcome for the rest of the call.
C6_SingleAttempt ==
  /\ [](/\ call.transportCalls <= 1
        /\ call.callbacks <= 1
        /\ (call.pc \in {"executed", "done"} /\ FailureOutcome)
             => call.exec.state = "rejected"
        /\ (Settled /\ FailureOutcome)
             => call.result.state = "rejected")
  /\ [][(call.result.state # "pending" /\ call'.pc # "idle")
          => call'.result = call.result]_vars
  /\ [][call'.pc # "idle" => call'.transportCalls >= call.transportCalls]_vars

C6_Witness ==
  /\ Settled
  /\ call.transportCalls = 1
  /\ call.callbacks = 1
  /\ call.response.err = "ECONNRESET"
  /\ call.result.kind = "TransportError"

\* C8 as stated: no two private calls of one client put the same nonce in
\* their Authorization header.
C8_NonceOnce ==
  \A i, j \in 1..Len(authLog) : i # j => authLog[i] # authLog[j]

\* C9 as stated: every call handed to the transport, private or public,
\* carries the client's configured timeout.
C9_TimeoutOnEveryCall ==
  call.pc = "issued" => call.options.timeout = Num(client.timeout)

\* C10: executeRequest's promise fulfils only if the transport reported no
\* error, the status is in [200, 300), the body was decoded (parsed for a
\* form request, an object for a json request) and has no error_code; the
\* fulfilment value is then the decoded body.
C10_FulfilOnlyIf ==
  call.exec.state = "fulfilled"
    => /\ call.response.err = ""
       /\ call.response.status >= 200
       /\ call.response.status < 300
       /\ BodyParses
       /\ call.api = "public" => Body.t = "object"
       /\ ~BodyHasErrorCode
       /\ call.exec.value = Body

C10_Witness ==
  /\ call.exec.state = "fulfilled"
  /\ call.api = "private"
  /\ call.response.status = 299
  /\ call.exec.value = Obj(<<Prop("Success", Leaf("boolean", "", 1))>>)

(***************************************************************************)
(* Properties of the signature (specification SpecSign).                   *)
(***************************************************************************)
Signed == sgn.pc = "signed"

SignatureA == sgn.optionsA.headers[1].Authorization.signature

SignatureB == sgn.optionsB.headers[1].Authorization.signature

Components == {"key", "secret", "method", "hostname", "params"}

Changed == {f \in Components : sgn.a[f] # sgn.b[f]}

\* C7 as stated: for a fixed nonce, changing one of key, secret, method,
\* params or URL (hostname) and keeping the others changes the signature.
C7_Original ==
  (Signed /\ Cardinality(Changed) = 1) => SignatureA # SignatureB

\* C7 as amended: for a fixed nonce the signature is a function of the
\* inputs, and changing exactly one input changes it unless the change does
\* not reach the signed text: secrets with the same base64 decoding, URLs that
\* differ only in letter case, params with the same JSON text.
C7_SignatureChanges ==
  /\ (Signed /\ Changed = {}) => SignatureA = SignatureB
  /\ (Signed /\ Changed = {"key"}) => SignatureA # SignatureB
  /\ (Signed /\ Changed = {"secret"})
       => (SignatureA = SignatureB <=> base64Decode(sgn.a.secret) = base64Decode(sgn.b.secret))
  /\ (Signed /\ (Changed = {"method"} \/ Changed = {"hostname"}))
       => (SignatureA = SignatureB <=> toLowerCase(sgn.optionsA.url) = toLowerCase(sgn.optionsB.url))
  /\ (Signed /\ Changed = {"params"})
       => (SignatureA = SignatureB <=> sgn.optionsA.form = sgn.optionsB.form)

C7_Witness ==
  /\ Signed
  /\ Changed = {"params"}
  /\ sgn.optionsA.form # sgn.optionsB.form
  /\ SignatureA # SignatureB

====
